---- MODULE Spec2Model ----
(***************************************************************************)
(* State-machine model of ollama-tui (src/src/main.rs): the foreground     *)
(* loop run_app, App::submit_prompt, the bounded event channel, the        *)
(* start-up fetch_models task, the generation task                         *)
(* stream_ollama_response with its newline-delimited JSON stream decoder,  *)
(* and the markdown renderer render_markdown.                              *)
(*                                                                         *)
(* Text is modelled as a sequence of characters, a network chunk as a      *)
(* sequence of bytes.  The byte alphabet keeps what the decoder reads:     *)
(*   "{"        the JSON text of a record up to the opening quote of its   *)
(*              response string                                            *)
(*   "}"        the rest of a record whose done field is false             *)
(*   "]"        the rest of a record whose done field is true              *)
(*   "a" "b"    one-byte (ASCII) characters of a response string           *)
(*   "C3" "A9"  the two bytes of one two-byte UTF-8 character ("eacute")   *)
(*   "x"        a byte that is no JSON                                     *)
(*   " " "\n"   white space and the line terminator                        *)
(*                                                                         *)
(* render_markdown is modelled on its own, reading the events of the       *)
(* markdown parser for a set of small documents; a span's text is a        *)
(* sequence of characters.                                                 *)
(*                                                                         *)
(* Left out: App.scroll_offset with PageUp/PageDown, App.http_client and   *)
(* the layout of frames, which no handler reads; a key the mode ignores    *)
(* is a poll without key.                                                  *)
(***************************************************************************)
EXTENDS Integers, Sequences, FiniteSets, TLC

\* ------------------------------------------------------------------ bounds
\* Number of generation tasks one run of the application may spawn.
MaxTasks == 1
\* Lines of a response body drawn for the stream-decoder specification.
MaxLines == 3
\* Characters the input buffer may hold.
MaxInput == 2
\* Capacity of the event channel in the application specification; the
\* program's value is CHANNEL_BUFFER_SIZE, scaled down so that a full channel
\* is reached.
SmallCapacity == 2
\* mpsc::channel(100)
CHANNEL_BUFFER_SIZE == 100

\* ---------------------------------------------------------- pure functions
Whitespace == {" ", "\n"}
\* Characters serde_json accepts unescaped inside the response string.
TextChars == {"a", "b", "eacute", "FFFD"}

\* String::from_utf8_lossy applied to ONE network chunk: a complete two-byte
\* sequence decodes to its character, a lead byte with no continuation byte
\* after it in this chunk, and a continuation byte with no lead byte before it
\* in this chunk, each decode to U+FFFD.
RECURSIVE from_utf8_lossy(_)
from_utf8_lossy(bytes) ==
  IF bytes = <<>> THEN <<>>
  ELSE IF Head(bytes) = "C3"
       THEN IF Len(bytes) >= 2 /\ bytes[2] = "A9"
            THEN <<"eacute">> \o from_utf8_lossy(SubSeq(bytes, 3, Len(bytes)))
            ELSE <<"FFFD">> \o from_utf8_lossy(Tail(bytes))
  ELSE IF Head(bytes) = "A9"
       THEN <<"FFFD">> \o from_utf8_lossy(Tail(bytes))
  ELSE <<Head(bytes)>> \o from_utf8_lossy(Tail(bytes))

\* The UTF-8 encoding the server applies to a text.
RECURSIVE Utf8(_)
Utf8(text) ==
  IF text = <<>> THEN <<>>
  ELSE (IF Head(text) = "eacute" THEN <<"C3", "A9">> ELSE <<Head(text)>>)
       \o Utf8(Tail(text))

\* str::trim
RECURSIVE TrimStart(_)
TrimStart(s) ==
  IF s # <<>> /\ Head(s) \in Whitespace THEN TrimStart(Tail(s)) ELSE s

RECURSIVE TrimEnd(_)
TrimEnd(s) ==
  IF s # <<>> /\ s[Len(s)] \in Whitespace
  THEN TrimEnd(SubSeq(s, 1, Len(s) - 1)) ELSE s

Trim(s) == TrimEnd(TrimStart(s))

\* buffer.find('\n'): 1-based position of the first newline, 0 when none.
RECURSIVE FindFrom(_, _)
FindFrom(s, i) ==
  IF i > Len(s) THEN 0 ELSE IF s[i] = "\n" THEN i ELSE FindFrom(s, i + 1)

FindNewline(s) == FindFrom(s, 1)

\* serde_json::from_str::<OllamaGenerateChunk>: Ok with the response text and
\* the done flag, or Err.
ParseOk(line) ==
  /\ Len(line) >= 2
  /\ line[1] = "{"
  /\ line[Len(line)] \in {"}", "]"}
  /\ \A i \in 2..(Len(line) - 1) : line[i] \in TextChars

from_str(line) ==
  IF ParseOk(line)
  THEN [ok |-> TRUE, response |-> SubSeq(line, 2, Len(line) - 1),
        done |-> line[Len(line)] = "]"]
  ELSE [ok |-> FALSE, response |-> <<>>, done |-> FALSE]

\* The wire form of one record of the generate API.
EncodeRecord(text, done) ==
  <<"{">> \o Utf8(text) \o <<IF done THEN "]" ELSE "}">>

\* The inner `while let Some(newline_pos) = buffer.find('\n')` loop up to its
\* next send: drains complete lines, skips the ones that trim to nothing, and
\* stops at the first line to report (kind "chunk" or "decode_err") or when
\* the buffer holds no newline (kind "read").
RECURSIVE NextLine(_, _)
NextLine(buffer, lineno) ==
  LET pos == FindNewline(buffer) IN
  IF pos = 0
  THEN [kind |-> "read", buffer |-> buffer, lineno |-> lineno,
        line |-> <<>>, response |-> <<>>, done |-> FALSE]
  ELSE LET line    == SubSeq(buffer, 1, pos)
           rest    == SubSeq(buffer, pos + 1, Len(buffer))
           trimmed == Trim(line)
           parsed  == from_str(trimmed)
       IN IF trimmed = <<>> THEN NextLine(rest, lineno + 1)
          ELSE [kind |-> IF parsed.ok THEN "chunk" ELSE "decode_err",
                buffer |-> rest, lineno |-> lineno + 1, line |-> trimmed,
                response |-> parsed.response, done |-> parsed.done]

\* ------------------------------------------------------------------ events
\* AppEvent; task and line say which task pushed the event and from which
\* line of the body it was decoded (0: not from a line); the loop never
\* reads them.
Event(type, payload, t, line) ==
  [type |-> type, payload |-> payload, task |-> t, line |-> line]

OllamaChunk(text, t, line) == Event("OllamaChunk", text, t, line)
OllamaDone(t)              == Event("OllamaDone", <<>>, t, 0)
OllamaError(msg, t, line)  == Event("OllamaError", msg, t, line)

\* ------------------------------------------------------------------- state
VARIABLES
  input_mode,            \* App.input_mode: "Normal" or "Editing"
  input_buffer,          \* App.input_buffer
  conversation,          \* App.conversation: sequence of [sender, text]
  models,                \* App.models
  selected_model_index,  \* App.selected_model_index: None or Some(0-based index)
  is_loading,            \* App.is_loading
  status_message,        \* App.status_message
  queue,                 \* events held by the mpsc channel, oldest first
  capacity,              \* the channel's buffer size
  rx_dropped,            \* the App (and its Receiver) has been dropped
  loop,                  \* position of run_app: "poll", "recv" or "returned"
  fetch_pc,              \* the fetch_models task: "running" or "returned"
  server,                \* which bodies the Ollama server answers with
  tasks,                 \* the generation tasks, by task id
  last_event,            \* what the loop's latest channel receive handled
  parser,                \* render_markdown: the parser's events not yet read
  lines,                 \* render_markdown: lines
  current_spans,         \* render_markdown: current_spans
  current_style,         \* render_markdown: current_style
  list_stack,            \* render_markdown: list_stack
  in_code_block,         \* render_markdown: in_code_block
  render_pc,             \* render_markdown: "loop" or "returned"
  list_items,            \* per open list, the items it has started so far
  style_stack            \* per open inline tag, current_style before its start

vars == <<input_mode, input_buffer, conversation, models, selected_model_index,
          is_loading, status_message, queue, capacity, rx_dropped, loop,
          fetch_pc, server, tasks, last_event, parser, lines, current_spans,
          current_style, list_stack, in_code_block, render_pc, list_items,
          style_stack>>

mdVars == <<parser, lines, current_spans, current_style, list_stack,
            in_code_block, render_pc, list_items, style_stack>>

appVars == <<input_mode, input_buffer, conversation, models,
             selected_model_index, is_loading, status_message, loop,
             last_event>>

\* A task that submit_prompt has not spawned yet.
IdleTask ==
  [pc |-> "idle", model |-> "", prompt |-> <<>>, body |-> <<>>, rest |-> <<>>,
   buffer |-> <<>>, lineno |-> 0,
   cur |-> [line |-> <<>>, response |-> <<>>, done |-> FALSE],
   sent |-> <<>>, send_failed |-> FALSE, path |-> ""]

\* tokio::spawn(stream_ollama_response(client, model_name, prompt, sender))
SpawnedTask(model_name, prompt) ==
  [IdleTask EXCEPT !.pc = "request", !.model = model_name, !.prompt = prompt]

\* ------------------------------------------------------- the Ollama server
\* Response texts of the records the server sends.
RecordTexts == {<<"a">>, <<"eacute">>}

\* Lines of a body, without their newline: a record, a line that is no JSON,
\* an empty line.
RecordLines == {EncodeRecord(text, done) : text \in RecordTexts, done \in BOOLEAN}
BodyLines == RecordLines \cup {<<"x">>, <<>>}

\* Bodies of exactly n newline-terminated lines.
RECURSIVE TerminatedBodies(_)
TerminatedBodies(n) ==
  IF n = 0 THEN {<<>>}
  ELSE {b \o l \o <<"\n">> : b \in TerminatedBodies(n - 1), l \in BodyLines}

\* Bodies of at most MaxLines lines, the last of which may lack its newline.
StreamBodies ==
  UNION {TerminatedBodies(n) : n \in 0..MaxLines}
  \cup UNION {{b \o l : b \in TerminatedBodies(n), l \in BodyLines \ {<<>>}}
              : n \in 0..(MaxLines - 1)}

\* Bodies the server streams in the application specification.
AppBodies ==
  { EncodeRecord(<<"a">>, FALSE) \o <<"\n">> \o EncodeRecord(<<"b">>, TRUE)
      \o <<"\n">>,
    <<"x", "\n">> \o EncodeRecord(<<"a">>, FALSE),
    <<"x">> }

ServerBodies == IF server = "app" THEN AppBodies ELSE StreamBodies

\* ------------------------------------------- the channel's sending half
\* Push that does not wait when the channel is full: the event is dropped and
\* the task goes on as after a successful send.
PushDropsWhenFull(t, ev, okTask, failTask) ==
  /\ IF rx_dropped
     THEN /\ queue' = queue
          /\ tasks' = [tasks EXCEPT ![t] = [failTask EXCEPT !.send_failed = TRUE]]
     ELSE /\ queue' = IF Len(queue) < capacity THEN Append(queue, ev)
                      ELSE queue
          /\ tasks' = [tasks EXCEPT ![t] = [okTask EXCEPT !.sent = Append(@, ev)]]
  /\ UNCHANGED <<appVars, capacity, rx_dropped, fetch_pc, server, mdVars>>

\* event_sender.send(ev).await of task t: waits while the channel is full,
\* fails once the receiver is dropped, and otherwise enqueues ev.  The task
\* goes on as okTask after a successful send and as failTask after a failed
\* one.
Push(t, ev, okTask, failTask) ==
  /\ rx_dropped \/ Len(queue) < capacity
  /\ IF rx_dropped
     THEN /\ queue' = queue
          /\ tasks' = [tasks EXCEPT ![t] = [failTask EXCEPT !.send_failed = TRUE]]
     ELSE /\ queue' = Append(queue, ev)
          /\ tasks' = [tasks EXCEPT ![t] = [okTask EXCEPT !.sent = Append(@, ev)]]
  /\ UNCHANGED <<appVars, capacity, rx_dropped, fetch_pc, server, mdVars>>

TaskStep(t, newTask) ==
  /\ tasks' = [tasks EXCEPT ![t] = newTask]
  /\ UNCHANGED <<appVars, queue, capacity, rx_dropped, fetch_pc, server, mdVars>>

\* ------------------------------------------------ stream_ollama_response
\* Resume the line loop of task record T: the next line to report, or back
\* to stream.next().
AfterLines(T) ==
  LET n == NextLine(T.buffer, T.lineno) IN
  [T EXCEPT !.buffer = n.buffer, !.lineno = n.lineno,
            !.cur = [line |-> n.line, response |-> n.response, done |-> n.done],
            !.pc = CASE n.kind = "chunk"      -> "send_chunk"
                     [] n.kind = "decode_err" -> "send_decode_error"
                     [] OTHER                 -> "read"]

\* client.post(..).send().await returns Err (connection refused, timeout).
RequestFails(t) ==
  /\ tasks[t].pc = "request"
  /\ TaskStep(t, [tasks[t] EXCEPT !.pc = "send_request_error",
                                  !.path = "request_error"])

\* The response has a non-2xx status.
StatusNotSuccess(t) ==
  /\ tasks[t].pc = "request"
  /\ TaskStep(t, [tasks[t] EXCEPT !.pc = "send_api_error", !.path = "api_error"])

\* The response has a 2xx status; body is what the server will stream.
StatusSuccess(t) ==
  /\ tasks[t].pc = "request"
  /\ \E body \in ServerBodies :
       TaskStep(t, [tasks[t] EXCEPT !.pc = "read", !.body = body, !.rest = body])

SendRequestError(t) ==
  /\ tasks[t].pc = "send_request_error"
  /\ Push(t, OllamaError(<<"Request Error">>, t, 0),
          [tasks[t] EXCEPT !.pc = "send_request_done"],
          [tasks[t] EXCEPT !.pc = "send_request_done"])

SendRequestDone(t) ==
  /\ tasks[t].pc = "send_request_done"
  /\ Push(t, OllamaDone(t),
          [tasks[t] EXCEPT !.pc = "returned"],
          [tasks[t] EXCEPT !.pc = "returned"])

SendApiError(t) ==
  /\ tasks[t].pc = "send_api_error"
  /\ Push(t, OllamaError(<<"API Error">>, t, 0),
          [tasks[t] EXCEPT !.pc = "send_api_done"],
          [tasks[t] EXCEPT !.pc = "send_api_done"])

\* SendApiDone without the send of Done.
SendApiNoDone(t) ==
  /\ tasks[t].pc = "send_api_done"
  /\ TaskStep(t, [tasks[t] EXCEPT !.pc = "returned"])

SendApiDone(t) ==
  /\ tasks[t].pc = "send_api_done"
  /\ Push(t, OllamaDone(t),
          [tasks[t] EXCEPT !.pc = "returned"],
          [tasks[t] EXCEPT !.pc = "returned"])

\* stream.next().await yields Ok(chunk_bytes): any non-empty prefix of the
\* bytes not yet delivered.  The chunk is decoded lossily on its own and
\* appended to the buffer; then the line loop runs.
StreamNextOk(t) ==
  /\ tasks[t].pc = "read"
  /\ tasks[t].rest # <<>>
  /\ \E k \in 1..Len(tasks[t].rest) :
       LET chunk_bytes == SubSeq(tasks[t].rest, 1, k) IN
       TaskStep(t, AfterLines(
         [tasks[t] EXCEPT !.rest = SubSeq(@, k + 1, Len(@)),
                          !.buffer = @ \o from_utf8_lossy(chunk_bytes)]))

\* StreamNextErr that decodes the remaining buffer as StreamEnd does instead
\* of reporting the read error.
StreamNextErrFlushes(t) ==
  /\ tasks[t].pc = "read"
  /\ LET final_data == Trim(tasks[t].buffer)
         parsed     == from_str(final_data)
     IN TaskStep(t,
          [tasks[t] EXCEPT
             !.path = "read_error",
             !.lineno = IF final_data = <<>> THEN @ ELSE @ + 1,
             !.cur = [line |-> final_data, response |-> parsed.response,
                      done |-> parsed.done],
             !.pc = IF final_data = <<>> THEN "send_read_error"
                    ELSE IF parsed.ok THEN "send_final_chunk"
                    ELSE "send_final_error"])

\* stream.next().await yields Err(e).
StreamNextErr(t) ==
  /\ tasks[t].pc = "read"
  /\ TaskStep(t, [tasks[t] EXCEPT !.pc = "send_read_error",
                                  !.path = "read_error"])

\* StreamEnd without the decoding of the remaining buffer.
StreamEndNoFlush(t) ==
  /\ tasks[t].pc = "read"
  /\ tasks[t].rest = <<>>
  /\ TaskStep(t, [tasks[t] EXCEPT !.path = "end_of_body",
                                  !.pc = "send_final_done"])

\* stream.next().await yields None: the remaining buffer, trimmed, is decoded
\* as one last record when it is not empty.
StreamEnd(t) ==
  /\ tasks[t].pc = "read"
  /\ tasks[t].rest = <<>>
  /\ LET final_data == Trim(tasks[t].buffer)
         parsed     == from_str(final_data)
     IN TaskStep(t,
          [tasks[t] EXCEPT
             !.path = "end_of_body",
             !.lineno = IF final_data = <<>> THEN @ ELSE @ + 1,
             !.cur = [line |-> final_data, response |-> parsed.response,
                      done |-> parsed.done],
             !.pc = IF final_data = <<>> THEN "send_final_done"
                    ELSE IF parsed.ok THEN "send_final_chunk"
                    ELSE "send_final_error"])

\* SendChunk without the check of chunk.done: the line loop always goes on.
SendChunkIgnoresDone(t) ==
  /\ tasks[t].pc = "send_chunk"
  /\ Push(t, OllamaChunk(tasks[t].cur.response, t, tasks[t].lineno),
          AfterLines(tasks[t]),
          [tasks[t] EXCEPT !.pc = "send_closed_error"])

\* send(OllamaChunk(chunk.response)); on success `if chunk.done` decides
\* between the Done send and the next line.
SendChunk(t) ==
  /\ tasks[t].pc = "send_chunk"
  /\ Push(t, OllamaChunk(tasks[t].cur.response, t, tasks[t].lineno),
          IF tasks[t].cur.done
          THEN [tasks[t] EXCEPT !.pc = "send_done", !.path = "done_record"]
          ELSE AfterLines(tasks[t]),
          [tasks[t] EXCEPT !.pc = "send_closed_error"])

\* let _ = send(OllamaError("Channel closed during streaming")); return Err
SendClosedError(t) ==
  /\ tasks[t].pc = "send_closed_error"
  /\ Push(t, OllamaError(<<"Channel closed during streaming">>, t, 0),
          [tasks[t] EXCEPT !.pc = "returned"],
          [tasks[t] EXCEPT !.pc = "returned"])

\* SendDone without the `return Ok(())` after the Done signal: the line loop
\* goes on.
SendDoneNoReturn(t) ==
  /\ tasks[t].pc = "send_done"
  /\ Push(t, OllamaDone(t),
          AfterLines(tasks[t]),
          [tasks[t] EXCEPT !.pc = "returned"])

\* send(OllamaDone) after a record with done = true; the task returns either way.
SendDone(t) ==
  /\ tasks[t].pc = "send_done"
  /\ Push(t, OllamaDone(t),
          [tasks[t] EXCEPT !.pc = "returned"],
          [tasks[t] EXCEPT !.pc = "returned"])

\* send(OllamaError("JSON Decode Error: .. on line: ..")), then the next line.
SendDecodeError(t) ==
  /\ tasks[t].pc = "send_decode_error"
  /\ Push(t, OllamaError(<<"JSON Decode Error">> \o tasks[t].cur.line, t,
                         tasks[t].lineno),
          AfterLines(tasks[t]),
          [tasks[t] EXCEPT !.pc = "returned"])

SendReadError(t) ==
  /\ tasks[t].pc = "send_read_error"
  /\ Push(t, OllamaError(<<"Stream Read Error">>, t, 0),
          [tasks[t] EXCEPT !.pc = "send_read_done"],
          [tasks[t] EXCEPT !.pc = "send_read_done"])

SendReadDone(t) ==
  /\ tasks[t].pc = "send_read_done"
  /\ Push(t, OllamaDone(t),
          [tasks[t] EXCEPT !.pc = "returned"],
          [tasks[t] EXCEPT !.pc = "returned"])

SendFinalChunk(t) ==
  /\ tasks[t].pc = "send_final_chunk"
  /\ Push(t, OllamaChunk(tasks[t].cur.response, t, tasks[t].lineno),
          [tasks[t] EXCEPT !.pc = "send_final_done"],
          [tasks[t] EXCEPT !.pc = "send_final_done"])

SendFinalError(t) ==
  /\ tasks[t].pc = "send_final_error"
  /\ Push(t, OllamaError(<<"Final Buffer Decode Error">> \o tasks[t].cur.line,
                         t, tasks[t].lineno),
          [tasks[t] EXCEPT !.pc = "send_final_done"],
          [tasks[t] EXCEPT !.pc = "send_final_done"])

\* SendFinalDone without the send: the task returns with no Done signal.
SendFinalNoDone(t) ==
  /\ tasks[t].pc = "send_final_done"
  /\ TaskStep(t, [tasks[t] EXCEPT !.pc = "returned"])

SendFinalDone(t) ==
  /\ tasks[t].pc = "send_final_done"
  /\ Push(t, OllamaDone(t),
          [tasks[t] EXCEPT !.pc = "returned"],
          [tasks[t] EXCEPT !.pc = "returned"])

\* main returns after run_app: the App is dropped and with it the Receiver.
DropApp ==
  /\ loop = "returned"
  /\ ~rx_dropped
  /\ rx_dropped' = TRUE
  /\ UNCHANGED <<appVars, queue, capacity, fetch_pc, server, tasks, mdVars>>

\* ----------------------------------------------------------- fetch_models
\* Results of GET /api/tags: catalogs of zero to three model names.
ModelLists == {<<>>, <<"m1">>, <<"m1", "m2">>, <<"m1", "m2", "m3">>}

ModelsFetched(result) == Event("ModelsFetched", result, 0, 0)

\* The task main spawns: fetch_models, then one send of ModelsFetched(result).
FetchModels ==
  /\ fetch_pc = "running"
  /\ rx_dropped \/ Len(queue) < capacity
  /\ \E result \in [ok : {TRUE}, models : ModelLists]
                   \cup {[ok |-> FALSE, models |-> <<>>]} :
       queue' = IF rx_dropped THEN queue
                ELSE Append(queue, ModelsFetched(result))
  /\ fetch_pc' = "returned"
  /\ UNCHANGED <<appVars, capacity, rx_dropped, server, tasks, mdVars>>

\* --------------------------------------------------------------------- App
Turn(sender, text) == [sender |-> sender, text |-> text]

\* Option<T>: None, or Some(x) as the one-element sequence <<x>>.
\* App::get_selected_model_name
None == <<>>
Some(x) == <<x>>
unwrap(opt) == opt[1]
unwrap_or(opt, default) == IF opt = None THEN default ELSE opt[1]

get_selected_model_name ==
  IF selected_model_index = None THEN None
  ELSE IF unwrap(selected_model_index) < Len(models)
       THEN Some(models[unwrap(selected_model_index) + 1])
       ELSE None

\* History of the latest channel event the loop handled: its type ("None"
\* for ModelsFetched), the selected model's name when it was handled, the
\* length of the conversation after it, and a flag: for a chunk, that it
\* opened a new turn; for an error, that is_loading was set before it; for a
\* Done, that it came next after such an error with no turn added between.
NoEvent == [type |-> "None", model |-> None, len |-> 0, flag |-> FALSE]

Handled(type, len, flag) ==
  [type |-> type, model |-> get_selected_model_name, len |-> len,
   flag |-> flag]

netVars == <<queue, capacity, rx_dropped, fetch_pc, server, tasks>>

\* The smallest task id not spawned yet, 0 when every id is used.
FreeTask ==
  IF \E t \in DOMAIN tasks : tasks[t].pc = "idle"
  THEN CHOOSE t \in DOMAIN tasks :
         /\ tasks[t].pc = "idle"
         /\ \A u \in DOMAIN tasks : tasks[u].pc = "idle" => t <= u
  ELSE 0

\* submit_prompt without the check of the trimmed prompt.
submit_prompt_untrimmed ==
  LET model_name == get_selected_model_name
      prompt     == Trim(input_buffer)
  IN
  IF model_name # None
  THEN IF input_buffer # <<>>
       THEN /\ FreeTask # 0
            /\ conversation' = Append(conversation, Turn("You", prompt))
            /\ input_buffer' = <<>>
            /\ is_loading' = TRUE
            /\ status_message' = <<"Asking", unwrap(model_name)>>
            /\ tasks' = [tasks EXCEPT
                           ![FreeTask] = SpawnedTask(unwrap(model_name), prompt)]
            /\ input_mode' = "Normal"
       ELSE /\ status_message' = <<"Cannot send an empty prompt.">>
            /\ input_mode' = "Normal"
            /\ UNCHANGED <<input_buffer, conversation, is_loading, tasks>>
  ELSE /\ status_message' = <<"Error: No model selected.">>
       /\ input_mode' = "Normal"
       /\ UNCHANGED <<input_buffer, conversation, is_loading, tasks>>

\* submit_prompt without input_buffer.clear().
submit_prompt_keeps_buffer ==
  LET model_name == get_selected_model_name
      prompt     == Trim(input_buffer)
  IN
  IF model_name # None
  THEN IF input_buffer # <<>>
       THEN IF prompt = <<>>
            THEN /\ status_message' = <<"Cannot send an empty prompt.">>
                 /\ input_mode' = "Normal"
                 /\ UNCHANGED <<input_buffer, conversation, is_loading, tasks>>
            ELSE /\ FreeTask # 0
                 /\ conversation' = Append(conversation, Turn("You", prompt))
                 /\ input_buffer' = input_buffer
                 /\ is_loading' = TRUE
                 /\ status_message' = <<"Asking", unwrap(model_name)>>
                 /\ tasks' = [tasks EXCEPT
                                ![FreeTask] = SpawnedTask(unwrap(model_name), prompt)]
                 /\ input_mode' = "Normal"
       ELSE /\ status_message' = <<"Cannot send an empty prompt.">>
            /\ input_mode' = "Normal"
            /\ UNCHANGED <<input_buffer, conversation, is_loading, tasks>>
  ELSE /\ status_message' = <<"Error: No model selected.">>
       /\ input_mode' = "Normal"
       /\ UNCHANGED <<input_buffer, conversation, is_loading, tasks>>


\* App::submit_prompt
submit_prompt ==
  LET model_name == get_selected_model_name
      prompt     == Trim(input_buffer)
  IN
  IF model_name # None
  THEN IF input_buffer # <<>>
       THEN IF prompt = <<>>
            THEN /\ status_message' = <<"Cannot send an empty prompt.">>
                 /\ input_mode' = "Normal"
                 /\ UNCHANGED <<input_buffer, conversation, is_loading, tasks>>
            ELSE /\ FreeTask # 0
                 /\ conversation' = Append(conversation, Turn("You", prompt))
                 /\ input_buffer' = <<>>
                 /\ is_loading' = TRUE
                 /\ status_message' = <<"Asking", unwrap(model_name)>>
                 /\ tasks' = [tasks EXCEPT
                                ![FreeTask] = SpawnedTask(unwrap(model_name), prompt)]
                 /\ input_mode' = "Normal"
       ELSE /\ status_message' = <<"Cannot send an empty prompt.">>
            /\ input_mode' = "Normal"
            /\ UNCHANGED <<input_buffer, conversation, is_loading, tasks>>
  ELSE /\ status_message' = <<"Error: No model selected.">>
       /\ input_mode' = "Normal"
       /\ UNCHANGED <<input_buffer, conversation, is_loading, tasks>>

\* ----------------------------------------------- run_app: the key handlers
\* event::poll timed out, or the event read is no key press the mode handles.
PollNoKey ==
  /\ loop = "poll"
  /\ loop' = "recv"
  /\ UNCHANGED <<input_mode, input_buffer, conversation, models,
                 selected_model_index, is_loading, status_message, last_event,
                 netVars, mdVars>>

\* Normal mode, 'q': return Ok(())
KeyQuit ==
  /\ loop = "poll" /\ input_mode = "Normal"
  /\ loop' = "returned"
  /\ UNCHANGED <<last_event, input_mode, input_buffer, conversation, models,
                 selected_model_index, is_loading, status_message, netVars, mdVars>>

\* SelectNext without the wrap to the first entry.
SelectNextNoWrap ==
  IF models # <<>>
  THEN Some(unwrap_or(selected_model_index, 0) + 1)
  ELSE selected_model_index

\* The selection select-next leaves for the catalog ms and the selection sel.
select_next(ms, sel) ==
  IF ms # <<>>
  THEN LET i == unwrap_or(sel, 0)
       IN Some(IF i >= Len(ms) - 1 THEN 0 ELSE i + 1)
  ELSE sel

\* The selection select-previous leaves.
select_previous(ms, sel) ==
  IF ms # <<>>
  THEN LET i == unwrap_or(sel, 0)
       IN Some(IF i = 0 THEN Len(ms) - 1 ELSE i - 1)
  ELSE sel

\* The selection after select-next.
SelectNext == select_next(models, selected_model_index)

\* SelectPrevious without the wrap to the last entry.
SelectPreviousNoWrap ==
  IF models # <<>>
  THEN LET i == unwrap_or(selected_model_index, 0)
       IN Some(IF i = 0 THEN 0 ELSE i - 1)
  ELSE selected_model_index

\* The selection after select-previous.
SelectPrevious == select_previous(models, selected_model_index)

\* Normal mode, 'j' or Down
KeyDown ==
  /\ loop = "poll" /\ input_mode = "Normal"
  /\ selected_model_index' = SelectNext
  /\ loop' = "recv"
  /\ UNCHANGED <<last_event, input_mode, input_buffer, conversation, models, is_loading,
                 status_message, netVars, mdVars>>

\* Normal mode, 'k' or Up
KeyUp ==
  /\ loop = "poll" /\ input_mode = "Normal"
  /\ selected_model_index' = SelectPrevious
  /\ loop' = "recv"
  /\ UNCHANGED <<last_event, input_mode, input_buffer, conversation, models, is_loading,
                 status_message, netVars, mdVars>>

\* KeyEnterNormal without the check that a model is selected.
KeyEnterNormalAlways ==
  /\ loop = "poll" /\ input_mode = "Normal"
  /\ input_mode' = "Editing"
  /\ status_message' = <<"Editing prompt...">>
  /\ loop' = "recv"
  /\ UNCHANGED <<last_event, input_buffer, conversation, models, selected_model_index,
                 is_loading, netVars, mdVars>>

\* Normal mode, Enter
KeyEnterNormal ==
  /\ loop = "poll" /\ input_mode = "Normal"
  /\ IF selected_model_index # None
     THEN /\ input_mode' = "Editing"
          /\ status_message' = <<"Editing prompt...">>
     ELSE /\ input_mode' = input_mode
          /\ status_message' = <<"Select a model first (Up/Down keys).">>
  /\ loop' = "recv"
  /\ UNCHANGED <<last_event, input_buffer, conversation, models, selected_model_index,
                 is_loading, netVars, mdVars>>

\* Editing mode, Ctrl+S
KeySend ==
  /\ loop = "poll" /\ input_mode = "Editing"
  /\ submit_prompt
  /\ loop' = "recv"
  /\ UNCHANGED <<last_event, models, selected_model_index, queue, capacity, rx_dropped,
                 fetch_pc, server, mdVars>>

\* Editing mode, Enter: input_buffer.push('\n')
KeyEnterEditing ==
  /\ loop = "poll" /\ input_mode = "Editing"
  /\ Len(input_buffer) < MaxInput
  /\ input_buffer' = Append(input_buffer, "\n")
  /\ loop' = "recv"
  /\ UNCHANGED <<last_event, input_mode, conversation, models, selected_model_index,
                 is_loading, status_message, netVars, mdVars>>

InputChars == {"a", " "}

\* Editing mode, Char(c) with no modifier or Shift: input_buffer.push(c)
KeyChar ==
  /\ loop = "poll" /\ input_mode = "Editing"
  /\ Len(input_buffer) < MaxInput
  /\ \E c \in InputChars : input_buffer' = Append(input_buffer, c)
  /\ loop' = "recv"
  /\ UNCHANGED <<last_event, input_mode, conversation, models, selected_model_index,
                 is_loading, status_message, netVars, mdVars>>

\* Editing mode, Backspace: input_buffer.pop()
KeyBackspace ==
  /\ loop = "poll" /\ input_mode = "Editing"
  /\ input_buffer' = IF input_buffer = <<>> THEN <<>>
                     ELSE SubSeq(input_buffer, 1, Len(input_buffer) - 1)
  /\ loop' = "recv"
  /\ UNCHANGED <<last_event, input_mode, conversation, models, selected_model_index,
                 is_loading, status_message, netVars, mdVars>>

\* KeyEsc without input_buffer.clear().
KeyEscKeepsBuffer ==
  /\ loop = "poll" /\ input_mode = "Editing"
  /\ input_mode' = "Normal"
  /\ status_message' = <<"Input cancelled.">>
  /\ loop' = "recv"
  /\ UNCHANGED <<last_event, input_buffer, conversation, models,
                 selected_model_index, is_loading, netVars, mdVars>>

\* Editing mode, Esc
KeyEsc ==
  /\ loop = "poll" /\ input_mode = "Editing"
  /\ input_mode' = "Normal"
  /\ input_buffer' = <<>>
  /\ status_message' = <<"Input cancelled.">>
  /\ loop' = "recv"
  /\ UNCHANGED <<last_event, conversation, models, selected_model_index, is_loading,
                 netVars, mdVars>>

\* --------------------------------------- run_app: the channel event handlers
\* try_recv() yields Ok(ev): the oldest event leaves the channel.
Receive(type) ==
  /\ loop = "recv"
  /\ queue # <<>>
  /\ Head(queue).type = type
  /\ queue' = Tail(queue)
  /\ loop' = "poll"
  /\ UNCHANGED <<capacity, rx_dropped, fetch_pc, server, tasks, mdVars>>

\* RecvModelsFetchedOk that selects the first entry of an empty catalog too.
RecvModelsFetchedOkSelectsAlways ==
  /\ Receive("ModelsFetched")
  /\ Head(queue).payload.ok
  /\ models' = Head(queue).payload.models
  /\ selected_model_index' = Some(0)
  /\ status_message' = <<"models loaded", Len(models')>>
  /\ last_event' = NoEvent
  /\ UNCHANGED <<input_mode, input_buffer, conversation, is_loading>>

\* AppEvent::ModelsFetched(Ok(models))
RecvModelsFetchedOk ==
  /\ Receive("ModelsFetched")
  /\ Head(queue).payload.ok
  /\ models' = Head(queue).payload.models
  /\ IF models' # <<>>
     THEN /\ selected_model_index' = Some(0)
          /\ status_message' = <<"models loaded", Len(models')>>
     ELSE /\ selected_model_index' = selected_model_index
          /\ status_message' = <<"No models found on Ollama server.">>
  /\ last_event' = NoEvent
  /\ UNCHANGED <<input_mode, input_buffer, conversation, is_loading>>

\* RecvModelsFetchedErr without the error turn.
RecvModelsFetchedErrNoTurn ==
  /\ Receive("ModelsFetched")
  /\ ~Head(queue).payload.ok
  /\ status_message' = <<"Error fetching models">>
  /\ last_event' = NoEvent
  /\ UNCHANGED <<input_mode, input_buffer, conversation, models,
                 selected_model_index, is_loading>>

\* AppEvent::ModelsFetched(Err(e))
RecvModelsFetchedErr ==
  /\ Receive("ModelsFetched")
  /\ ~Head(queue).payload.ok
  /\ status_message' = <<"Error fetching models">>
  /\ conversation' = Append(conversation,
                            Turn("System Error", <<"Failed to fetch models">>))
  /\ last_event' = NoEvent
  /\ UNCHANGED <<input_mode, input_buffer, models, selected_model_index,
                 is_loading>>

\* PushChunk without the sender comparison: every chunk opens a turn.
PushChunkNewTurn(chunk) ==
  Append(conversation,
         Turn(unwrap_or(get_selected_model_name, "Model"), chunk))

\* PushChunk assigning the chunk to the open turn instead of push_str.
PushChunkReplace(chunk) ==
  LET model_name == unwrap_or(get_selected_model_name, "Model") IN
  IF conversation # <<>>
  THEN IF conversation[Len(conversation)].sender = model_name
       THEN [conversation EXCEPT ![Len(conversation)].text = chunk]
       ELSE Append(conversation, Turn(model_name, chunk))
  ELSE Append(conversation, Turn(model_name, chunk))

\* The conversation after AppEvent::OllamaChunk(chunk) is handled.
PushChunk(chunk) ==
  LET model_name == unwrap_or(get_selected_model_name, "Model") IN
  IF conversation # <<>>
  THEN IF conversation[Len(conversation)].sender = model_name
       THEN [conversation EXCEPT ![Len(conversation)].text = @ \o chunk]
       ELSE Append(conversation, Turn(model_name, chunk))
  ELSE Append(conversation, Turn(model_name, chunk))

\* AppEvent::OllamaChunk(chunk)
RecvChunk ==
  /\ Receive("OllamaChunk")
  /\ conversation' = PushChunk(Head(queue).payload)
  /\ last_event' = Handled("OllamaChunk", Len(conversation'),
                            Len(conversation') > Len(conversation))
  /\ UNCHANGED <<input_mode, input_buffer, models, selected_model_index,
                 is_loading, status_message>>

\* RecvDone that also logs a turn.
RecvDoneLogsTurn ==
  /\ Receive("OllamaDone")
  /\ is_loading' = FALSE
  /\ status_message' = <<"Response received.">>
  /\ conversation' = Append(conversation,
                            Turn("System", <<"Response received.">>))
  /\ last_event' = Handled("OllamaDone", Len(conversation),
                            /\ last_event.type = "OllamaError"
                            /\ last_event.flag
                            /\ last_event.len = Len(conversation))
  /\ UNCHANGED <<input_mode, input_buffer, models, selected_model_index>>

\* AppEvent::OllamaDone
RecvDone ==
  /\ Receive("OllamaDone")
  /\ is_loading' = FALSE
  /\ status_message' = <<"Response received.">>
  /\ last_event' = Handled("OllamaDone", Len(conversation),
                            /\ last_event.type = "OllamaError"
                            /\ last_event.flag
                            /\ last_event.len = Len(conversation))
  /\ UNCHANGED <<input_mode, input_buffer, conversation, models,
                 selected_model_index>>

\* The conversation after AppEvent::OllamaError(err_msg) is handled.
PushError(err_msg) == Append(conversation, Turn("Error", err_msg))

\* AppEvent::OllamaError(err_msg)
RecvError ==
  /\ Receive("OllamaError")
  /\ is_loading' = FALSE
  /\ conversation' = PushError(Head(queue).payload)
  /\ status_message' = <<"Error occurred">> \o Head(queue).payload
  /\ last_event' = Handled("OllamaError", Len(conversation'), is_loading)
  /\ UNCHANGED <<input_mode, input_buffer, models, selected_model_index>>

\* SenderCount without the handles of main and of the App: only the clones
\* of the background tasks are counted.
SenderCountTasksOnly ==
  (IF fetch_pc = "running" THEN 1 ELSE 0)
  + Cardinality({t \in DOMAIN tasks : tasks[t].pc \notin {"idle", "returned"}})

\* Sender handles alive: main's tx, App.event_sender (both until main
\* returns), the fetch task's clone and one clone per running task.
SenderCount ==
  (IF rx_dropped THEN 0 ELSE 2)
  + (IF fetch_pc = "running" THEN 1 ELSE 0)
  + Cardinality({t \in DOMAIN tasks : tasks[t].pc \notin {"idle", "returned"}})

\* try_recv() yields Err: Empty, the loop goes on; Disconnected (no event
\* queued and no sender left), the loop returns Err(ChannelReceive).
RecvNothing ==
  /\ loop = "recv"
  /\ queue = <<>>
  /\ IF SenderCount = 0
     THEN /\ status_message' =
               <<"Critical Error: Async event channel disconnected.">>
          /\ loop' = "returned"
     ELSE /\ status_message' = status_message
          /\ loop' = "poll"
  /\ UNCHANGED <<input_mode, input_buffer, conversation, models,
                 selected_model_index, is_loading, last_event, netVars, mdVars>>

\* ------------------------------------------------------- render_markdown
\* Number of items of the longest list of Documents.
MaxItems == 3

\* A text style: foreground, background and modifiers.
Style(fg, bg, mods) == [fg |-> fg, bg |-> bg, mods |-> mods]
StyleDefault == Style("None", "None", {})
BaseStyle == Style("Cyan", "None", {})
code_block_style == Style("White", "Rgb(40,40,40)", {})
inline_code_style == Style("Yellow", "Rgb(50,50,50)", {"ITALIC"})
DarkGray == Style("DarkGray", "None", {})

\* The text of a fence line, three backquotes (written "'" here).
Fence == <<"'", "'", "'">>

\* Span::styled(content, style), Span::raw(content); a Line is the sequence
\* of its spans.
Span(content, style) == [content |-> content, style |-> style]
SpanRaw(content) == Span(content, StyleDefault)

\* str::repeat, str::starts_with, str::contains, str::ends_with
RECURSIVE Repeat(_, _)
Repeat(s, n) == IF n = 0 THEN <<>> ELSE s \o Repeat(s, n - 1)

starts_with(s, p) ==
  Len(p) <= Len(s) /\ SubSeq(s, 1, Len(p)) = p

contains(s, p) ==
  \E i \in 1..(Len(s) - Len(p) + 1) : SubSeq(s, i, i + Len(p) - 1) = p

ends_with(s, p) ==
  Len(p) <= Len(s) /\ SubSeq(s, Len(s) - Len(p) + 1, Len(s)) = p

\* str::lines: the pieces between line feeds; a final empty piece is none.
RECURSIVE str_lines(_)
str_lines(s) ==
  IF s = <<>> THEN <<>>
  ELSE LET n == FindNewline(s) IN
       IF n = 0 THEN <<s>>
       ELSE <<SubSeq(s, 1, n - 1)>> \o str_lines(SubSeq(s, n + 1, Len(s)))

\* format!("{}", n) of an unsigned integer.
DigitChars == <<"0", "1", "2", "3", "4", "5", "6", "7", "8", "9">>

RECURSIVE Digits(_)
Digits(n) ==
  IF n < 10 THEN <<DigitChars[n + 1]>>
  ELSE Digits(n \div 10) \o <<DigitChars[(n % 10) + 1]>>

\* u64::saturating_add and usize::saturating_sub; a list start has at most
\* nine digits, so the sum stays below 2^64.
saturating_add(a, b) == a + b
saturating_sub(a, b) == IF a >= b THEN a - b ELSE 0

\* The events of the markdown parser (pulldown_cmark::Event).  text is the
\* text of Text, Code and Html, start the Option<u64> of a List, level the
\* level of a Heading.
MDEvent(kind, tag, text, start, level) ==
  [kind |-> kind, tag |-> tag, text |-> text, start |-> start,
   level |-> level]

MDStart(tag) == MDEvent("Start", tag, <<>>, <<>>, 0)
MDEnd(tag) == MDEvent("End", tag, <<>>, <<>>, 0)
MDStartList(start) == MDEvent("Start", "List", <<>>, start, 0)
MDEndList(start) == MDEvent("End", "List", <<>>, start, 0)
MDStartHeading(level) == MDEvent("Start", "Heading", <<>>, <<>>, level)
MDEndHeading(level) == MDEvent("End", "Heading", <<>>, <<>>, level)
MDText(text) == MDEvent("Text", "", text, <<>>, 0)
MDCode(text) == MDEvent("Code", "", text, <<>>, 0)
MDHtml(text) == MDEvent("Html", "", text, <<>>, 0)
MDSoftBreak == MDEvent("SoftBreak", "", <<>>, <<>>, 0)
MDHardBreak == MDEvent("HardBreak", "", <<>>, <<>>, 0)
MDRule == MDEvent("Rule", "", <<>>, <<>>, 0)

\* Parser::new_ext(markdown_input, options) with strikethrough enabled, as
\* the event sequences it yields for the documents below.
TextA == <<"a">>
TextDot == <<"b", ".", " ", "c">>

Wrapped(tag, run) == <<MDStart(tag)>> \o run \o <<MDEnd(tag)>>

\* Inline content of a paragraph.
InlineRuns ==
  { <<MDText(TextA)>>,
    <<MDText(TextDot)>>,
    <<MDText(TextA), MDSoftBreak, MDText(TextA)>>,
    <<MDText(TextA), MDHardBreak, MDText(TextDot)>>,
    <<MDCode(TextDot), MDText(TextA)>>,
    <<MDHtml(TextA)>>,
    Wrapped("Strong", <<MDText(TextA)>>) \o <<MDText(TextA)>>,
    Wrapped("Emphasis",
            <<MDText(TextA)>> \o Wrapped("Strong", <<MDText(TextA)>>)
              \o <<MDText(TextA)>>) \o <<MDText(TextA)>>,
    Wrapped("Strikethrough", <<MDText(TextA)>>) \o <<MDText(TextA)>>,
    Wrapped("Link", <<MDText(TextA)>>) \o <<MDText(TextA)>>,
    Wrapped("Image", <<MDText(TextA)>>) \o <<MDText(TextA)>> }

\* Inline content of a heading and of a list item.
HeadingRuns ==
  { <<MDText(TextA)>>,
    Wrapped("Strong", <<MDText(TextA)>>) \o <<MDText(TextA)>>,
    Wrapped("Link", <<MDText(TextA)>>) \o <<MDText(TextA)>> }

ItemRuns == { <<MDText(TextA)>>, <<MDText(TextDot)>> }

ListStarts == {None, Some(1), Some(3)}

Paragraphs == { Wrapped("Paragraph", r) : r \in InlineRuns }

Headings ==
  { <<MDStartHeading(l)>> \o r \o <<MDEndHeading(l)>> :
      l \in {1, 2}, r \in HeadingRuns }

BlockQuotes ==
  { Wrapped("BlockQuote", Wrapped("Paragraph", r)) :
      r \in { <<MDText(TextA)>>,
              Wrapped("Emphasis", <<MDText(TextA)>>) \o <<MDText(TextA)>> } }

CodeBlocks ==
  { Wrapped("CodeBlock", <<MDText(<<"a", "\n", "b", ".", " ", "\n">>)>>),
    Wrapped("CodeBlock", <<MDText(<<"a", "\n">>), MDText(<<"b", "\n">>)>>) }

Rules == { <<MDRule>> }

\* The items of a tight list: each item holds its inline content directly.
RECURSIVE ItemsOf(_)
ItemsOf(runs) ==
  IF runs = <<>> THEN <<>>
  ELSE Wrapped("Item", Head(runs)) \o ItemsOf(Tail(runs))

ListOf(start, items) == <<MDStartList(start)>> \o items \o <<MDEndList(start)>>

FlatLists ==
  { ListOf(s, ItemsOf(runs)) :
      s \in ListStarts,
      runs \in UNION { [1..n -> ItemRuns] : n \in 1..MaxItems } }

\* A list whose first item holds a nested list of two items.
NestedLists ==
  { ListOf(s, Wrapped("Item", <<MDText(TextA)>>
                                \o ListOf(s2, ItemsOf(<<r, r>>)))
                \o ItemsOf(more)) :
      s \in ListStarts, s2 \in {None, Some(1)}, r \in {<<MDText(TextA)>>},
      more \in { <<>>, << <<MDText(TextA)>> >> } }

Blocks ==
  Paragraphs \cup Headings \cup BlockQuotes \cup CodeBlocks \cup Rules
    \cup FlatLists \cup NestedLists

\* What may stand before the last block of a document.
LeadBlocks ==
  { <<>>,
    Wrapped("Paragraph", <<MDText(TextA)>>),
    Wrapped("Paragraph", <<MDText(TextDot)>>),
    ListOf(Some(1), ItemsOf(<< <<MDText(TextA)>> >>)) }

Documents == { l \o b : l \in LeadBlocks, b \in Blocks } \cup { <<>> }

\* The closure push_current_line: the lines after it ran.
push_current_line(ls, spans) ==
  IF spans # <<>> THEN Append(ls, spans) ELSE ls

\* The tags of inline styles.
InlineTags == {"Emphasis", "Strong", "Strikethrough", "Link"}

\* One iteration of `for event in parser` reading an event of this kind and
\* tag.  style_stack records what current_style was at the start of each
\* inline tag that is open.
Reads(kind, tag) ==
  /\ render_pc = "loop"
  /\ parser # <<>>
  /\ Head(parser).kind = kind
  /\ Head(parser).tag = tag
  /\ parser' = Tail(parser)
  /\ style_stack' =
       IF tag \notin InlineTags THEN style_stack
       ELSE IF kind = "Start" THEN Append(style_stack, current_style)
       ELSE IF style_stack = <<>> THEN <<>>
       ELSE SubSeq(style_stack, 1, Len(style_stack) - 1)
  /\ UNCHANGED <<appVars, netVars>>

\* The iteration flushes the current line and changes nothing else.
Flush ==
  /\ lines' = push_current_line(lines, current_spans)
  /\ current_spans' = <<>>

StartParagraph ==
  /\ Reads("Start", "Paragraph")
  /\ current_style' = BaseStyle
  /\ UNCHANGED <<lines, current_spans, list_stack, in_code_block, render_pc,
                 list_items>>

StartHeading ==
  /\ Reads("Start", "Heading")
  /\ LET style == Style("Magenta", "None", {"BOLD"})
         prefix == Repeat(<<"#">>, Head(parser).level) \o <<" ">> IN
     /\ lines' = push_current_line(lines, current_spans)
     /\ current_style' = style
     /\ current_spans' = <<Span(prefix, style)>>
  /\ UNCHANGED <<list_stack, in_code_block, render_pc, list_items>>

StartBlockQuote ==
  /\ Reads("Start", "BlockQuote")
  /\ LET style == Style("Yellow", "None", {"ITALIC"}) IN
     /\ lines' = push_current_line(lines, current_spans)
     /\ current_style' = style
     /\ current_spans' = <<Span(<<">", " ">>, style)>>
  /\ UNCHANGED <<list_stack, in_code_block, render_pc, list_items>>

StartCodeBlock ==
  /\ Reads("Start", "CodeBlock")
  /\ in_code_block' = TRUE
  /\ current_style' = code_block_style
  /\ lines' = Append(push_current_line(lines, current_spans),
                     <<Span(Fence, DarkGray)>>)
  /\ current_spans' = <<>>
  /\ UNCHANGED <<list_stack, render_pc, list_items>>

StartList ==
  /\ Reads("Start", "List")
  /\ Flush
  /\ list_stack' = Append(list_stack, Head(parser).start)
  /\ list_items' = Append(list_items, 0)
  /\ UNCHANGED <<current_style, in_code_block, render_pc>>

\* The marker of an item: for an ordered list the start value plus the number
\* of lines whose first span starts with the indentation and contains ". ".
ItemMarker(indent) ==
  IF list_stack # <<>> /\ list_stack[Len(list_stack)] # None
  THEN LET start == unwrap(list_stack[Len(list_stack)])
           count == Cardinality({ i \in 1..Len(lines) :
                       /\ lines[i] # <<>>
                       /\ starts_with(lines[i][1].content, indent)
                       /\ contains(lines[i][1].content, <<".", " ">>) })
       IN  Digits(saturating_add(start, count)) \o <<".", " ">>
  ELSE <<"*", " ">>

StartItem ==
  /\ Reads("Start", "Item")
  /\ LET indent == Repeat(<<" ", " ">>, saturating_sub(Len(list_stack), 1))
         marker == ItemMarker(indent) IN
     /\ lines' = push_current_line(lines, current_spans)
     /\ current_style' = BaseStyle
     /\ current_spans' = <<SpanRaw(indent),
                           Span(marker, Style("Green", "None", {}))>>
  /\ list_items' = IF list_items = <<>> THEN list_items
                   ELSE [list_items EXCEPT ![Len(list_items)] = @ + 1]
  /\ UNCHANGED <<list_stack, in_code_block, render_pc>>

add_modifier(style, m) == [style EXCEPT !.mods = @ \cup {m}]
remove_modifier(style, m) == [style EXCEPT !.mods = @ \ {m}]

StartEmphasis ==
  /\ Reads("Start", "Emphasis")
  /\ current_style' = add_modifier(current_style, "ITALIC")
  /\ UNCHANGED <<lines, current_spans, list_stack, in_code_block, render_pc,
                 list_items>>

StartStrong ==
  /\ Reads("Start", "Strong")
  /\ current_style' = add_modifier(current_style, "BOLD")
  /\ UNCHANGED <<lines, current_spans, list_stack, in_code_block, render_pc,
                 list_items>>

StartStrikethrough ==
  /\ Reads("Start", "Strikethrough")
  /\ current_style' = add_modifier(current_style, "CROSSED_OUT")
  /\ UNCHANGED <<lines, current_spans, list_stack, in_code_block, render_pc,
                 list_items>>

EndEmphasis ==
  /\ Reads("End", "Emphasis")
  /\ current_style' = remove_modifier(current_style, "ITALIC")
  /\ UNCHANGED <<lines, current_spans, list_stack, in_code_block, render_pc,
                 list_items>>

EndStrong ==
  /\ Reads("End", "Strong")
  /\ current_style' = remove_modifier(current_style, "BOLD")
  /\ UNCHANGED <<lines, current_spans, list_stack, in_code_block, render_pc,
                 list_items>>

EndStrikethrough ==
  /\ Reads("End", "Strikethrough")
  /\ current_style' = remove_modifier(current_style, "CROSSED_OUT")
  /\ UNCHANGED <<lines, current_spans, list_stack, in_code_block, render_pc,
                 list_items>>

StartLink ==
  /\ Reads("Start", "Link")
  /\ current_style' =
       add_modifier([current_style EXCEPT !.fg = "Blue"], "UNDERLINED")
  /\ UNCHANGED <<lines, current_spans, list_stack, in_code_block, render_pc,
                 list_items>>

\* The placeholder is pushed and `continue` goes on with the next event.
StartImage ==
  /\ Reads("Start", "Image")
  /\ current_spans' =
       Append(current_spans,
              Span(<<"[", "I", "m", "a", "g", "e", "]">>, DarkGray))
  /\ UNCHANGED <<lines, current_style, list_stack, in_code_block, render_pc,
                 list_items>>

\* End of Paragraph, Heading, Item or BlockQuote.
EndBlock ==
  /\ \E tag \in {"Paragraph", "Heading", "Item", "BlockQuote"} :
       Reads("End", tag)
  /\ Flush
  /\ UNCHANGED <<current_style, list_stack, in_code_block, render_pc,
                 list_items>>

EndCodeBlock ==
  /\ Reads("End", "CodeBlock")
  /\ in_code_block' = FALSE
  /\ lines' = Append(push_current_line(lines, current_spans),
                     <<Span(Fence, DarkGray)>>)
  /\ current_spans' = <<>>
  /\ current_style' = BaseStyle
  /\ UNCHANGED <<list_stack, render_pc, list_items>>

EndList ==
  /\ Reads("End", "List")
  /\ list_stack' = IF list_stack = <<>> THEN <<>>
                   ELSE SubSeq(list_stack, 1, Len(list_stack) - 1)
  /\ list_items' = IF list_items = <<>> THEN <<>>
                   ELSE SubSeq(list_items, 1, Len(list_items) - 1)
  /\ UNCHANGED <<lines, current_spans, current_style, in_code_block,
                 render_pc>>

EndLink ==
  /\ Reads("End", "Link")
  /\ LET s == remove_modifier(current_style, "UNDERLINED") IN
     current_style' = IF s.fg = "Blue" THEN [s EXCEPT !.fg = "Cyan"] ELSE s
  /\ UNCHANGED <<lines, current_spans, list_stack, in_code_block, render_pc,
                 list_items>>

EndImage ==
  /\ Reads("End", "Image")
  /\ UNCHANGED <<lines, current_spans, current_style, list_stack,
                 in_code_block, render_pc, list_items>>

\* The loop over text.lines(): every line but the first flushes the current
\* line before its span is pushed.  The result is <<lines, current_spans>>.
RECURSIVE PushTextLines(_, _, _, _, _)
PushTextLines(ls, spans, pieces, i, style) ==
  IF i > Len(pieces) THEN <<ls, spans>>
  ELSE LET ls1 == IF i > 1 THEN push_current_line(ls, spans) ELSE ls
           spans1 == IF i > 1 THEN <<>> ELSE spans IN
       PushTextLines(ls1, Append(spans1, Span(pieces[i], style)),
                     pieces, i + 1, style)

MdText ==
  /\ Reads("Text", "")
  /\ LET text == Head(parser).text
         r == PushTextLines(lines, current_spans, str_lines(text), 1,
                            current_style) IN
     IF ~in_code_block /\ ends_with(text, <<"\n">>) /\ text # <<>>
     THEN /\ lines' = push_current_line(r[1], r[2])
          /\ current_spans' = <<>>
     ELSE /\ lines' = r[1]
          /\ current_spans' = r[2]
  /\ UNCHANGED <<current_style, list_stack, in_code_block, render_pc,
                 list_items>>

MdCode ==
  /\ Reads("Code", "")
  /\ current_spans' =
       Append(current_spans, Span(Head(parser).text, inline_code_style))
  /\ UNCHANGED <<lines, current_style, list_stack, in_code_block, render_pc,
                 list_items>>

MdHtml ==
  /\ Reads("Html", "")
  /\ UNCHANGED <<lines, current_spans, current_style, list_stack,
                 in_code_block, render_pc, list_items>>

SoftBreak ==
  /\ Reads("SoftBreak", "")
  /\ current_spans' = Append(current_spans, SpanRaw(<<" ">>))
  /\ UNCHANGED <<lines, current_style, list_stack, in_code_block, render_pc,
                 list_items>>

HardBreak ==
  /\ Reads("HardBreak", "")
  /\ Flush
  /\ UNCHANGED <<current_style, list_stack, in_code_block, render_pc,
                 list_items>>

\* The rule is one span of fifty box-drawing characters ("-" here), followed
\* by an empty line.
Rule ==
  /\ Reads("Rule", "")
  /\ lines' = push_current_line(lines, current_spans)
                \o << <<Span(Repeat(<<"-">>, 50), DarkGray)>>, <<>> >>
  /\ current_spans' = <<>>
  /\ UNCHANGED <<current_style, list_stack, in_code_block, render_pc,
                 list_items>>

\* The parser is exhausted: the last line is flushed, an empty result gets
\* one empty line, and lines is returned.
RenderReturn ==
  /\ render_pc = "loop"
  /\ parser = <<>>
  /\ LET ls == push_current_line(lines, current_spans) IN
     lines' = IF ls = <<>> THEN << <<>> >> ELSE ls
  /\ current_spans' = <<>>
  /\ render_pc' = "returned"
  /\ UNCHANGED <<parser, current_style, list_stack, in_code_block,
                 list_items, style_stack, appVars, netVars>>

\* render_markdown has not been called.
NotRendering ==
  /\ parser = <<>>
  /\ lines = <<>>
  /\ current_spans = <<>>
  /\ current_style = BaseStyle
  /\ list_stack = <<>>
  /\ in_code_block = FALSE
  /\ render_pc = "returned"
  /\ list_items = <<>>
  /\ style_stack = <<>>

\* ---------------------------------------------------------- specifications
\* The state App::new and main leave: the fetch task is running, nothing is
\* queued, no generation task exists.
Init ==
  /\ input_mode = "Normal"
  /\ input_buffer = <<>>
  /\ conversation = <<>>
  /\ models = <<>>
  /\ selected_model_index = None
  /\ is_loading = FALSE
  /\ status_message = <<"Fetching models...">>
  /\ queue = <<>>
  /\ capacity = SmallCapacity
  /\ rx_dropped = FALSE
  /\ loop = "poll"
  /\ fetch_pc = "running"
  /\ server = "app"
  /\ tasks = [t \in 1..MaxTasks |-> IdleTask]
  /\ last_event = NoEvent
  /\ NotRendering

TaskNext(t) ==
  \/ RequestFails(t)
  \/ StatusNotSuccess(t)
  \/ StatusSuccess(t)
  \/ SendRequestError(t)
  \/ SendRequestDone(t)
  \/ SendApiError(t)
  \/ SendApiDone(t)
  \/ StreamNextOk(t)
  \/ StreamNextErr(t)
  \/ StreamEnd(t)
  \/ SendChunk(t)
  \/ SendClosedError(t)
  \/ SendDone(t)
  \/ SendDecodeError(t)
  \/ SendReadError(t)
  \/ SendReadDone(t)
  \/ SendFinalChunk(t)
  \/ SendFinalError(t)
  \/ SendFinalDone(t)

Next ==
  \/ PollNoKey
  \/ KeyQuit
  \/ KeyDown
  \/ KeyUp
  \/ KeyEnterNormal
  \/ KeySend
  \/ KeyEnterEditing
  \/ KeyChar
  \/ KeyBackspace
  \/ KeyEsc
  \/ RecvModelsFetchedOk
  \/ RecvModelsFetchedErr
  \/ RecvChunk
  \/ RecvDone
  \/ RecvError
  \/ RecvNothing
  \/ FetchModels
  \/ DropApp
  \/ \E t \in 1..MaxTasks : TaskNext(t)

Spec == Init /\ [][Next]_vars

\* The stream decoder on its own: one generation task, spawned for the prompt
\* "a" to model "m1", runs after the user has quit the loop ('q') and while
\* main has not returned yet; the server answers with any body of
\* StreamBodies, fragmented in any way.
InitStream ==
  /\ input_mode = "Normal"
  /\ input_buffer = <<>>
  /\ conversation = <<Turn("You", <<"a">>)>>
  /\ models = <<"m1">>
  /\ selected_model_index = Some(0)
  /\ is_loading = TRUE
  /\ status_message = <<"Asking", "m1">>
  /\ queue = <<>>
  /\ capacity = CHANNEL_BUFFER_SIZE
  /\ rx_dropped = FALSE
  /\ loop = "returned"
  /\ fetch_pc = "returned"
  /\ server = "stream"
  /\ tasks = [t \in {1} |-> SpawnedTask("m1", <<"a">>)]
  /\ last_event = NoEvent
  /\ NotRendering

NextStream ==
  \/ DropApp
  \/ \E t \in {1} : TaskNext(t)

SpecStream == InitStream /\ [][NextStream]_vars

\* The application after a first prompt ("a", to "m1" of the catalog m1, m2)
\* has been submitted, while the user never quits: the loop keeps iterating
\* (a poll that times out after 50 ms, one try_recv, a sleep of 10 ms) and
\* the runtime keeps running the generation task whenever it can take a
\* step.  The HTTP call ends: the body arrives in finitely many chunks, and
\* the steps that end the call (a read error, the end of the body, the
\* failure or the answer of the request) are taken when they stay possible.
InitLive ==
  /\ input_mode = "Normal"
  /\ input_buffer = <<>>
  /\ conversation = <<Turn("You", <<"a">>)>>
  /\ models = <<"m1", "m2">>
  /\ selected_model_index = Some(0)
  /\ is_loading = TRUE
  /\ status_message = <<"Asking", "m1">>
  /\ queue = <<>>
  /\ capacity = SmallCapacity
  /\ rx_dropped = FALSE
  /\ loop = "recv"
  /\ fetch_pc = "returned"
  /\ server = "app"
  /\ tasks = [t \in 1..MaxTasks |->
                IF t = 1 THEN SpawnedTask("m1", <<"a">>) ELSE IdleTask]
  /\ last_event = NoEvent
  /\ NotRendering

LoopLive ==
  \/ PollNoKey
  \/ KeyDown
  \/ KeyUp
  \/ KeyEnterNormal
  \/ KeySend
  \/ KeyEnterEditing
  \/ KeyChar
  \/ KeyBackspace
  \/ KeyEsc
  \/ RecvChunk
  \/ RecvDone
  \/ RecvError
  \/ RecvNothing

\* Every step of a generation task but the arrival of a chunk of the body;
\* no send fails while the loop runs.
TaskProgress(t) ==
  \/ RequestFails(t)
  \/ StatusNotSuccess(t)
  \/ StatusSuccess(t)
  \/ SendRequestError(t)
  \/ SendRequestDone(t)
  \/ SendApiError(t)
  \/ SendApiDone(t)
  \/ StreamNextErr(t)
  \/ StreamEnd(t)
  \/ SendChunk(t)
  \/ SendDone(t)
  \/ SendDecodeError(t)
  \/ SendReadError(t)
  \/ SendReadDone(t)
  \/ SendFinalChunk(t)
  \/ SendFinalError(t)
  \/ SendFinalDone(t)

NextLive ==
  \/ LoopLive
  \/ \E t \in 1..MaxTasks : StreamNextOk(t) \/ TaskProgress(t)

SpecLive ==
  /\ InitLive
  /\ [][NextLive]_vars
  /\ WF_vars(LoopLive)
  /\ \A t \in 1..MaxTasks : WF_vars(TaskProgress(t))

\* render_markdown on its own: ui calls it for the text of a turn, which the
\* parser reads as any document of Documents; the application is in the
\* state App::new leaves.
InitRender ==
  /\ input_mode = "Normal"
  /\ input_buffer = <<>>
  /\ conversation = <<>>
  /\ models = <<>>
  /\ selected_model_index = None
  /\ is_loading = FALSE
  /\ status_message = <<"Fetching models...">>
  /\ queue = <<>>
  /\ capacity = CHANNEL_BUFFER_SIZE
  /\ rx_dropped = FALSE
  /\ loop = "poll"
  /\ fetch_pc = "running"
  /\ server = "app"
  /\ tasks = [t \in {1} |-> IdleTask]
  /\ last_event = NoEvent
  /\ parser \in Documents
  /\ lines = <<>>
  /\ current_spans = <<>>
  /\ current_style = BaseStyle
  /\ list_stack = <<>>
  /\ in_code_block = FALSE
  /\ render_pc = "loop"
  /\ list_items = <<>>
  /\ style_stack = <<>>

NextRender ==
  \/ StartParagraph
  \/ StartHeading
  \/ StartBlockQuote
  \/ StartCodeBlock
  \/ StartList
  \/ StartItem
  \/ StartEmphasis
  \/ StartStrong
  \/ StartStrikethrough
  \/ StartLink
  \/ StartImage
  \/ EndBlock
  \/ EndCodeBlock
  \/ EndList
  \/ EndEmphasis
  \/ EndStrong
  \/ EndStrikethrough
  \/ EndLink
  \/ EndImage
  \/ MdText
  \/ MdCode
  \/ MdHtml
  \/ SoftBreak
  \/ HardBreak
  \/ Rule
  \/ RenderReturn

SpecRender == InitRender /\ [][NextRender]_vars

\* ------------------------------------------------------------------ claims
\* Task t has returned and none of its sends failed.
Finished(t) == tasks[t].pc = "returned" /\ ~tasks[t].send_failed

\* The body of task t was streamed to its end or to a done record.
ReadThrough(t) == tasks[t].path \in {"done_record", "end_of_body"}

EventTypes(s) == [i \in 1..Len(s) |-> s[i].type]
IsChunk(e) == e.type = "OllamaChunk"
ChunkTexts(s) ==
  LET c == SelectSeq(s, IsChunk) IN [i \in 1..Len(c) |-> c[i].payload]

\* The chunks of s come from lines of increasing number.
InGenerationOrder(s) ==
  \A i, j \in 1..Len(s) :
    (i < j /\ IsChunk(s[i]) /\ IsChunk(s[j])) => s[i].line < s[j].line

\* C1 as stated: the events a task pushed, all its sends having succeeded,
\* are chunks in generation order followed by one Done, or by an error and
\* then Done.
C1_AsStated ==
  \A t \in DOMAIN tasks :
    Finished(t) =>
      LET s == tasks[t].sent IN
      /\ InGenerationOrder(s)
      /\ \E n \in 0..Len(s) :
           /\ \A i \in 1..n : IsChunk(s[i])
           /\ SubSeq(EventTypes(s), n + 1, Len(s))
                \in {<<"OllamaDone">>, <<"OllamaError", "OllamaDone">>}

\* C1 (amended): while none of its sends has failed, a task pushes chunks in
\* generation order, among them one OllamaError per line that does not
\* decode, and it ends with exactly one OllamaDone, which is its last event
\* and which a request failure, a non-2xx status and a read error precede
\* with one OllamaError; nothing follows the Done.
C1_EventOrder ==
  \A t \in DOMAIN tasks :
    ~tasks[t].send_failed =>
      LET s == tasks[t].sent IN
      /\ InGenerationOrder(s)
      /\ \A i \in 1..Len(s) :
           /\ s[i].type \in {"OllamaChunk", "OllamaError", "OllamaDone"}
           /\ s[i].type = "OllamaDone"
                => i = Len(s) /\ tasks[t].pc = "returned"
           /\ (s[i].type = "OllamaError" /\ i < Len(s) - 1)
                => s[i].payload[1] = "JSON Decode Error"
      /\ tasks[t].pc = "returned" =>
           /\ s # <<>>
           /\ s[Len(s)].type = "OllamaDone"
           /\ tasks[t].path \in {"request_error", "api_error"}
                => EventTypes(s) = <<"OllamaError", "OllamaDone">>
           /\ tasks[t].path = "read_error"
                => Len(s) >= 2 /\ s[Len(s) - 1].type = "OllamaError"

\* A task has returned after a chunk, a decode error, a second chunk and Done.
C1_Witness ==
  \E t \in DOMAIN tasks :
    /\ Finished(t)
    /\ EventTypes(tasks[t].sent)
         = <<"OllamaChunk", "OllamaError", "OllamaChunk", "OllamaDone">>

\* Sequences of at most MaxLines records of which only the last may be done.
RecordSeqs ==
  UNION {[1..n -> [text : RecordTexts, done : BOOLEAN]] : n \in 0..MaxLines}
ValidRecordSeqs ==
  {r \in RecordSeqs : \A i \in 1..Len(r) : r[i].done => i = Len(r)}

\* The body made of the records r, each followed by a newline.
RECURSIVE Wire(_)
Wire(r) ==
  IF r = <<>> THEN <<>>
  ELSE EncodeRecord(Head(r).text, Head(r).done) \o <<"\n">> \o Wire(Tail(r))

\* C2: chunking invariance.  Whatever the fragmentation of a body of
\* newline-terminated valid records, the task emits one chunk per record, in
\* record order, carrying each record's response text (so any two
\* fragmentations give the same chunks).
C2_ChunkingInvariance ==
  \A t \in DOMAIN tasks :
    \A r \in ValidRecordSeqs :
      (Finished(t) /\ ReadThrough(t) /\ tasks[t].body = Wire(r)) =>
        ChunkTexts(tasks[t].sent) = [i \in 1..Len(r) |-> r[i].text]

\* C3: a valid record that arrives split across network chunks, at any byte
\* offset, yields exactly one chunk, whose text is the record's text (what
\* the unsplit record yields), and no error.
C3_SplitRecord ==
  \A t \in DOMAIN tasks :
    \A text \in RecordTexts, done \in BOOLEAN :
      ( /\ Finished(t) /\ ReadThrough(t)
        /\ tasks[t].body = EncodeRecord(text, done) \o <<"\n">> ) =>
        /\ ChunkTexts(tasks[t].sent) = <<text>>
        /\ \A i \in 1..Len(tasks[t].sent) :
             tasks[t].sent[i].type # "OllamaError"

\* C4: a malformed line between two valid record lines yields, in order, the
\* chunk of the first record, one OllamaError for the malformed line and the
\* chunk of the following record with its text intact; Done comes only after
\* them.
C4_MalformedLine ==
  \A t \in DOMAIN tasks :
    \A t1, t2 \in RecordTexts, done \in BOOLEAN :
      ( /\ Finished(t) /\ ReadThrough(t)
        /\ tasks[t].body = EncodeRecord(t1, FALSE) \o <<"\n", "x", "\n">>
                             \o EncodeRecord(t2, done) \o <<"\n">> ) =>
        LET s == tasks[t].sent IN
        /\ EventTypes(s)
             = <<"OllamaChunk", "OllamaError", "OllamaChunk", "OllamaDone">>
        /\ s[1].payload = t1
        /\ s[2].payload = <<"JSON Decode Error", "x">>
        /\ s[3].payload = t2

\* The step in which the loop's try_recv takes an event of the given type.
Handles(type) ==
  /\ loop = "recv" /\ loop' = "poll"
  /\ queue # <<>> /\ Head(queue).type = type

Last(s) == s[Len(s)]
ActiveModel == unwrap_or(get_selected_model_name, "Model")

\* C5: when the last turn is not a turn of the active model, Chunk(a) opens
\* one turn of that model with text a; Chunk(b) handled next for the same
\* model, no turn having been added in between, appends b to that turn and
\* adds no turn: one turn, text a followed by b.
C5_TwoChunks ==
  [][ /\ ( /\ Handles("OllamaChunk")
           /\ (conversation = <<>> \/ Last(conversation).sender # ActiveModel) )
         => conversation'
              = Append(conversation, Turn(ActiveModel, Head(queue).payload))
      /\ ( /\ Handles("OllamaChunk")
           /\ last_event.type = "OllamaChunk" /\ last_event.flag
           /\ last_event.len = Len(conversation)
           /\ last_event.model = get_selected_model_name )
         => /\ Len(conversation') = last_event.len
            /\ Last(conversation').sender = ActiveModel
            /\ Last(conversation').text
                 = Last(conversation).text \o Head(queue).payload
            /\ SubSeq(conversation', 1, Len(conversation) - 1)
                 = SubSeq(conversation, 1, Len(conversation) - 1)
    ]_vars

\* Chunk("a") then Chunk("b") have been merged into the one turn "ab".
C5_Witness ==
  /\ last_event.type = "OllamaChunk" /\ ~last_event.flag
  /\ last_event.len = Len(conversation)
  /\ Last(conversation) = Turn("m1", <<"a", "b">>)

\* C6: with is_loading set, OllamaError(msg) appends exactly one error turn
\* and clears the flag; the OllamaDone handled next is processed all the
\* same, finds the flag already false (one true-to-false transition), leaves
\* it false and appends nothing.
C6_ErrorThenDone ==
  [][ /\ (Handles("OllamaError") /\ is_loading)
         => /\ conversation'
                 = Append(conversation, Turn("Error", Head(queue).payload))
            /\ ~is_loading'
      /\ ( /\ Handles("OllamaDone")
           /\ last_event.type = "OllamaError" /\ last_event.flag
           /\ last_event.len = Len(conversation) )
         => /\ ~is_loading /\ ~is_loading'
            /\ conversation' = conversation
            /\ Last(conversation).sender = "Error"
            /\ last_event'.type = "OllamaDone"
    ]_vars

\* A Done has been handled right after an error that had cleared the flag.
C6_Witness ==
  /\ last_event.type = "OllamaDone" /\ last_event.flag
  /\ ~is_loading
  /\ Last(conversation).sender = "Error"

\* C7: in Editing mode, a send with an empty or whitespace-only buffer adds no
\* turn, spawns no task, leaves is_loading alone and ends in Normal mode with
\* the status 'Cannot send an empty prompt.'.
C7_EmptyPrompt ==
  [][ (KeySend /\ Trim(input_buffer) = <<>>)
        => /\ conversation' = conversation
           /\ tasks' = tasks
           /\ is_loading' = is_loading
           /\ input_mode' = "Normal"
           /\ status_message' = <<"Cannot send an empty prompt.">>
    ]_vars

\* A whitespace-only prompt has just been refused.
C7_Witness ==
  /\ loop = "recv" /\ input_mode = "Normal"
  /\ input_buffer # <<>> /\ Trim(input_buffer) = <<>>
  /\ status_message = <<"Cannot send an empty prompt.">>

\* C8: the selected model index, if present, is less than the length of the
\* catalog.
C8_SelectionInRange ==
  selected_model_index # None => unwrap(selected_model_index) < Len(models)

\* The second of two models is selected.
C8_Witness ==
  /\ selected_model_index = Some(1)
  /\ Len(models) = 2

\* C9: a chunk pushed by a task started for model M is appended to, or opens,
\* the last turn, and that turn's sender is M.
C9_ChunkSender ==
  [][ Handles("OllamaChunk")
        => /\ Last(conversation').sender = tasks[Head(queue).task].model
           /\ Len(conversation') \in {Len(conversation), Len(conversation) + 1}
           /\ SubSeq(conversation', 1, Len(conversation') - 1)
                = SubSeq(conversation, 1, Len(conversation') - 1)
    ]_vars

IsPrefix(s, t) == Len(s) <= Len(t) /\ SubSeq(t, 1, Len(s)) = s

\* C10: the conversation is append-only: it never gets shorter, no turn is
\* removed or reordered, a turn keeps its sender, and its text changes only
\* by growing at its end and only while the turn is the last one.
C10_AppendOnly ==
  [][ /\ Len(conversation') >= Len(conversation)
      /\ \A i \in 1..Len(conversation) :
           /\ conversation'[i].sender = conversation[i].sender
           /\ IsPrefix(conversation[i].text, conversation'[i].text)
           /\ conversation'[i].text # conversation[i].text
                => i = Len(conversation) /\ i = Len(conversation')
    ]_vars

\* A reply has grown in place below the user's turn.
C10_Witness ==
  /\ Len(conversation) = 2
  /\ conversation[1].sender = "You"
  /\ conversation[2] = Turn("m1", <<"a", "b">>)

\* C11: when render_markdown starts an item of an ordered list with start
\* value s, and k items of that list were started before it, the marker it
\* pushes is "s+k. ".
C11_OrderedMarkers ==
  [][ ( /\ render_pc = "loop"
        /\ parser # <<>>
        /\ Head(parser).kind = "Start"
        /\ Head(parser).tag = "Item"
        /\ list_stack # <<>>
        /\ Last(list_stack) # None )
        => current_spans'[2].content
             = Digits(unwrap(Last(list_stack)) + Last(list_items))
                 \o <<".", " ">>
    ]_vars

\* C12: a send command in Editing mode ends in Normal mode; when a model is
\* selected and the trimmed buffer is not empty, it appends one "You" turn
\* holding the trimmed buffer, empties the buffer, sets is_loading and spawns
\* one task with the selected model's name and the trimmed prompt.
C12_Send ==
  [][ KeySend
        => /\ input_mode' = "Normal"
           /\ (get_selected_model_name # None /\ Trim(input_buffer) # <<>>)
                => /\ conversation'
                        = Append(conversation, Turn("You", Trim(input_buffer)))
                   /\ input_buffer' = <<>>
                   /\ is_loading'
                   /\ \E t \in DOMAIN tasks :
                        /\ tasks[t].pc = "idle"
                        /\ tasks'[t].pc = "request"
                        /\ tasks'[t].model = unwrap(get_selected_model_name)
                        /\ tasks'[t].prompt = Trim(input_buffer)
                        /\ \A u \in DOMAIN tasks \ {t} : tasks'[u] = tasks[u]
    ]_vars

\* A prompt has been sent to "m2" and its task has not started the request.
C12_Witness ==
  /\ input_mode = "Normal"
  /\ input_buffer = <<>>
  /\ is_loading
  /\ conversation = <<Turn("You", <<"a">>)>>
  /\ status_message = <<"Asking", "m2">>
  /\ tasks[1].pc = "request"
  /\ tasks[1].model = "m2"
  /\ tasks[1].prompt = <<"a">>

\* C13: the confirm key of Normal mode switches to Editing and sets the
\* guidance status when a model is selected; with no model selected it only
\* sets the warning status.  No other step enters Editing mode.
C13_Confirm ==
  [][ /\ KeyEnterNormal
        => /\ IF selected_model_index # None
              THEN /\ input_mode' = "Editing"
                   /\ status_message' = <<"Editing prompt...">>
              ELSE /\ input_mode' = "Normal"
                   /\ status_message'
                        = <<"Select a model first (Up/Down keys).">>
           /\ UNCHANGED <<input_buffer, conversation, models,
                          selected_model_index, is_loading>>
      /\ (input_mode # "Editing" /\ input_mode' = "Editing")
        => KeyEnterNormal /\ selected_model_index # None
    ]_vars

\* The confirm key has just switched to Editing mode.
C13_Witness ==
  /\ input_mode = "Editing"
  /\ status_message = <<"Editing prompt...">>
  /\ loop = "recv"
  /\ selected_model_index # None

\* k select-next steps in a row.
RECURSIVE NextTimes(_, _, _)
NextTimes(ms, sel, k) ==
  IF k = 0 THEN sel ELSE NextTimes(ms, select_next(ms, sel), k - 1)

\* C14: with n >= 1 models and selection i, select-next gives (i+1) mod n and
\* select-previous (i-1) mod n, each undoes the other and n select-next steps
\* return to i; with no models both leave the selection as it is.  The 'j'
\* and 'k' keys of Normal mode set the selection so.
C14_Circular ==
  [][ LET n == Len(models)
          sel == selected_model_index IN
      /\ (n >= 1 /\ sel # None)
           => /\ select_next(models, sel) = Some((unwrap(sel) + 1) % n)
              /\ select_previous(models, sel) = Some((unwrap(sel) + n - 1) % n)
              /\ select_previous(models, select_next(models, sel)) = sel
              /\ select_next(models, select_previous(models, sel)) = sel
              /\ NextTimes(models, sel, n) = sel
      /\ n = 0
           => /\ select_next(models, sel) = sel
              /\ select_previous(models, sel) = sel
      /\ KeyDown
           => selected_model_index'
                = IF n >= 1 THEN Some((unwrap_or(sel, 0) + 1) % n) ELSE sel
      /\ KeyUp
           => selected_model_index'
                = IF n >= 1 THEN Some((unwrap_or(sel, 0) + n - 1) % n) ELSE sel
    ]_vars

\* Select-previous has wrapped from the first of three models to the last.
C14_Witness ==
  /\ Len(models) = 3
  /\ selected_model_index = Some(2)
  /\ loop = "recv"
  /\ input_mode = "Normal"

\* C15: the cancel command of Editing mode empties the input buffer and
\* switches to Normal mode; the conversation, the catalog, the selection,
\* the loading flag and the tasks stay as they are.
C15_Cancel ==
  [][ KeyEsc
        => /\ input_buffer' = <<>>
           /\ input_mode' = "Normal"
           /\ UNCHANGED <<conversation, models, selected_model_index,
                          is_loading, tasks, queue>>
    ]_vars

\* An edit has just been cancelled.
C15_Witness ==
  /\ status_message = <<"Input cancelled.">>
  /\ input_mode = "Normal"
  /\ input_buffer = <<>>
  /\ loop = "recv"

\* C16: handling ModelsFetched(Ok(list)) makes the catalog the list, selects
\* index 0 when the list is not empty and adds no turn; handling
\* ModelsFetched(Err) leaves catalog and selection, sets the error status and
\* appends one "System Error" turn.
C16_ModelsFetched ==
  [][ Handles("ModelsFetched")
        => IF Head(queue).payload.ok
           THEN /\ models' = Head(queue).payload.models
                /\ models' # <<>> => selected_model_index' = Some(0)
                /\ conversation' = conversation
           ELSE /\ UNCHANGED <<models, selected_model_index>>
                /\ status_message' = <<"Error fetching models">>
                /\ Len(conversation') = Len(conversation) + 1
                /\ SubSeq(conversation', 1, Len(conversation)) = conversation
                /\ Last(conversation').sender = "System Error"
    ]_vars

\* The failure of the fetch has been handled.
C16_Witness ==
  /\ status_message = <<"Error fetching models">>
  /\ conversation = <<Turn("System Error", <<"Failed to fetch models">>)>>
  /\ models = <<>>
  /\ selected_model_index = None
  /\ fetch_pc = "returned"

\* C18: a generation task one of whose sends has failed has returned: it is
\* at no later send and reads no more of the body.
C18_StopAfterFailedSend ==
  \A t \in DOMAIN tasks : tasks[t].send_failed => tasks[t].pc = "returned"

\* C19: once submit_prompt has spawned a generation task, the loop
\* eventually handles an OllamaDone and the loading flag is false then.
C19_DoneProcessed ==
  \A t \in 1..MaxTasks :
    (tasks[t].pc = "request")
      ~> (last_event.type = "OllamaDone" /\ ~is_loading)

\* The task's Done has been handled after more events than the channel
\* holds.
C19_Witness ==
  /\ last_event.type = "OllamaDone"
  /\ ~is_loading
  /\ tasks[1].pc = "returned"
  /\ Len(tasks[1].sent) > SmallCapacity

\* The lines of a body, the last one with or without its newline.
RECURSIVE SplitBody(_)
SplitBody(body) ==
  IF body = <<>> THEN <<>>
  ELSE LET pos == FindNewline(body) IN
       IF pos = 0 THEN <<body>>
       ELSE <<SubSeq(body, 1, pos - 1)>>
              \o SplitBody(SubSeq(body, pos + 1, Len(body)))

\* The numbers of the lines of a body that are records with done = true.
DoneLines(body) ==
  { i \in 1..Len(SplitBody(body)) :
      LET r == from_str(Trim(from_utf8_lossy(SplitBody(body)[i]))) IN
      r.ok /\ r.done }

\* C20: when a task whose sends all succeeded has returned and one of its
\* Chunks is that of a record with done = true, then this Chunk and one Done
\* are the last two events the task pushed and it pushed no other Done: no
\* later line or byte of the body produced an event.
C20_DoneRecordEnds ==
  \A t \in DOMAIN tasks :
    Finished(t) =>
      \A j \in 1..Len(tasks[t].sent) :
        ( /\ tasks[t].sent[j].type = "OllamaChunk"
          /\ tasks[t].sent[j].line \in DoneLines(tasks[t].body) )
          => /\ j = Len(tasks[t].sent) - 1
             /\ tasks[t].sent[j + 1].type = "OllamaDone"
             /\ \A i \in 1..j : tasks[t].sent[i].type # "OllamaDone"

\* The first line was a record with done = true; the task returned with a
\* later line still in its buffer.
C20_Witness ==
  /\ Finished(1)
  /\ 1 \in DoneLines(tasks[1].body)
  /\ Len(tasks[1].sent) = 2
  /\ tasks[1].sent[1].type = "OllamaChunk"
  /\ tasks[1].sent[2].type = "OllamaDone"
  /\ tasks[1].buffer # <<>>

\* The number of line feeds of a body: the lines the line loop drains.
NewlineCount(body) == Cardinality({ i \in 1..Len(body) : body[i] = "\n" })

DoneCount(s) == Cardinality({ j \in 1..Len(s) : s[j].type = "OllamaDone" })

\* The events a task pushed that were decoded from the text left in the
\* buffer after the last line feed of the body.
FinalEvents(t) ==
  { j \in 1..Len(tasks[t].sent) :
      tasks[t].sent[j].line = NewlineCount(tasks[t].body) + 1 }

\* C21: a task whose sends all succeeded and that returned after the body
\* ended has pushed Done once, as its last event; when the trimmed rest of the
\* buffer is not empty, the event before Done is the one event decoded from
\* it, a Chunk with its response when it decodes and an error when it does
\* not; when it is empty no event comes from it.
C21_EndOfBody ==
  \A t \in DOMAIN tasks :
    (Finished(t) /\ tasks[t].path = "end_of_body") =>
      LET s          == tasks[t].sent
          final_data == Trim(tasks[t].buffer)
          parsed     == from_str(final_data)
      IN /\ s # <<>>
         /\ Last(s).type = "OllamaDone"
         /\ DoneCount(s) = 1
         /\ IF final_data = <<>>
            THEN FinalEvents(t) = {}
            ELSE /\ FinalEvents(t) = {Len(s) - 1}
                 /\ IF parsed.ok
                    THEN /\ s[Len(s) - 1].type = "OllamaChunk"
                         /\ s[Len(s) - 1].payload = parsed.response
                    ELSE s[Len(s) - 1].type = "OllamaError"

\* The body ended with an unterminated record whose done is true: its Chunk
\* and one Done were pushed.
C21_Witness ==
  /\ Finished(1)
  /\ tasks[1].path = "end_of_body"
  /\ from_str(Trim(tasks[1].buffer)).done
  /\ Len(tasks[1].sent) >= 2
  /\ tasks[1].sent[Len(tasks[1].sent) - 1].type = "OllamaChunk"
  /\ Last(tasks[1].sent).type = "OllamaDone"

\* C22: a task whose sends all succeeded and that returned after a read of
\* the body failed has pushed the read error and then Done as its last two
\* events, one of each; every event before them was decoded from a complete
\* line, so the text left in the buffer produced no event.
C22_ReadError ==
  \A t \in DOMAIN tasks :
    (Finished(t) /\ tasks[t].path = "read_error") =>
      LET s == tasks[t].sent
          n == Len(s)
      IN /\ n >= 2
         /\ s[n] = OllamaDone(t)
         /\ s[n - 1] = OllamaError(<<"Stream Read Error">>, t, 0)
         /\ \A j \in 1..(n - 2) :
              /\ s[j].type \in {"OllamaChunk", "OllamaError"}
              /\ s[j].payload # <<"Stream Read Error">>
              /\ s[j].line \in 1..NewlineCount(tasks[t].body)
         /\ FindNewline(tasks[t].buffer) = 0

\* A read failed while a partial line was in the buffer.
C22_Witness ==
  /\ Finished(1)
  /\ tasks[1].path = "read_error"
  /\ tasks[1].buffer # <<>>
  /\ Len(tasks[1].sent) = 3
  /\ tasks[1].sent[1].type = "OllamaChunk"

\* C23: a task whose sends all succeeded and that returned after the request
\* failed or was answered with a non-2xx status has pushed two events, an
\* error and then Done.
C23_RequestError ==
  \A t \in DOMAIN tasks :
    (Finished(t) /\ tasks[t].path \in {"request_error", "api_error"}) =>
      /\ Len(tasks[t].sent) = 2
      /\ tasks[t].sent[1].type = "OllamaError"
      /\ tasks[t].sent[2].type = "OllamaDone"
      /\ tasks[t].body = <<>>

\* The request was answered with a non-2xx status and the task has returned.
C23_Witness ==
  /\ Finished(1)
  /\ tasks[1].path = "api_error"
  /\ tasks[1].sent = <<OllamaError(<<"API Error">>, 1, 0), OllamaDone(1)>>

\* The event read next lies between the start and the end of this tag: the
\* first event of the tag that is still to be read is its end.
Enclosed(tag) ==
  LET at == { i \in 1..Len(parser) : parser[i].tag = tag } IN
  /\ at # {}
  /\ parser[CHOOSE i \in at : \A j \in at : i <= j].kind = "End"

NextEventIs(kind) ==
  /\ render_pc = "loop"
  /\ parser # <<>>
  /\ Head(parser).kind = kind

\* C24: the start of an image pushes the placeholder span, and a text event
\* between the start and the end of an image pushes no span and no line.
C24_ImagePlaceholder ==
  [][ /\ (NextEventIs("Start") /\ Head(parser).tag = "Image")
          => /\ current_spans' =
                  Append(current_spans,
                         Span(<<"[", "I", "m", "a", "g", "e", "]">>, DarkGray))
             /\ lines' = lines
      /\ (NextEventIs("Text") /\ Enclosed("Image"))
          => /\ current_spans' = current_spans
             /\ lines' = lines
    ]_vars

\* C25: the start of a block quote flushes the current line and pushes the
\* prefix, and every text event between the start and the end of a block
\* quote pushes a span that is italic in the colour of the block quote.
C25_BlockQuoteStyle ==
  [][ /\ (NextEventIs("Start") /\ Head(parser).tag = "BlockQuote")
          => /\ lines' = push_current_line(lines, current_spans)
             /\ Len(current_spans') = 1
             /\ current_spans'[1].content = <<">", " ">>
      /\ (NextEventIs("Text") /\ Enclosed("BlockQuote"))
          => /\ current_spans' # <<>>
             /\ Last(current_spans').content = Head(parser).text
             /\ Last(current_spans').style.fg = "Yellow"
             /\ "ITALIC" \in Last(current_spans').style.mods
    ]_vars

\* C26: the end of an emphasis, strong, strikethrough or link leaves
\* current_style as it was just before the matching start.
C26_PushPop ==
  [][ ( /\ NextEventIs("End")
        /\ Head(parser).tag \in InlineTags
        /\ style_stack # <<>> )
          => current_style' = Last(style_stack)
    ]_vars

\* Task t was spawned and the loop has not taken its Done from the channel:
\* the task has not returned, or its Done is still queued.
InFlight(t) ==
  /\ tasks[t].pc # "idle"
  /\ \/ tasks[t].pc # "returned"
     \/ \E i \in 1..Len(queue) :
          queue[i].type = "OllamaDone" /\ queue[i].task = t

\* C27: while the loop runs, is_loading is true whenever a generation task
\* was spawned and its Done has not been processed.
C27_LoadingTracks ==
  (loop # "returned" /\ ~rx_dropped) =>
    \A t \in DOMAIN tasks : InFlight(t) => is_loading

\* The positions of a task at a send.
SendPcs ==
  { "send_request_error", "send_request_done", "send_api_error",
    "send_api_done", "send_chunk", "send_closed_error", "send_done",
    "send_decode_error", "send_read_error", "send_read_done",
    "send_final_chunk", "send_final_error", "send_final_done" }

\* The events of task t that are in the channel, in channel order.
QueueOf(t) == SelectSeq(queue, LAMBDA e : e.task = t)

IsSuffix(s, r) ==
  /\ Len(s) <= Len(r)
  /\ s = SubSeq(r, Len(r) - Len(s) + 1, Len(r))

\* What one step may do to the channel: a task appends the event it sends
\* when there is room, the loop takes the head in its receive step and
\* handles it, and every other step leaves the channel alone; a task at a
\* send does not move while the channel is full; a step of the loop from its
\* poll position goes to its receive position, or returns, without taking an
\* event.
ChannelStep ==
  /\ \/ queue' = queue
     \/ /\ Len(queue) < capacity
        /\ \E t \in DOMAIN tasks :
             /\ tasks[t].pc \in SendPcs
             /\ tasks'[t].sent = Append(tasks[t].sent, Last(tasks'[t].sent))
             /\ queue' = Append(queue, Last(tasks'[t].sent))
     \/ /\ queue # <<>>
        /\ queue' = Tail(queue)
        /\ loop = "recv" /\ loop' = "poll"
        /\ last_event'.type = Head(queue).type
  /\ \A t \in DOMAIN tasks :
       (Len(queue) >= capacity /\ ~rx_dropped /\ tasks[t].pc \in SendPcs)
         => tasks'[t] = tasks[t]
  /\ (loop = "poll" /\ loop' # "poll")
       => loop' \in {"recv", "returned"} /\ queue' = queue
  /\ (loop = "recv" /\ loop' # "recv") => loop' = "poll"

\* C28: the channel never holds more events than its capacity, which is at
\* most 100; the events of a task in the channel are the last events it
\* sent, in the order it sent them, so that those before them were taken by
\* the loop once each and in that order; every step treats the channel as
\* ChannelStep says; and the loop ends up with the channel drained.
C28_Channel ==
  /\ [](/\ Len(queue) <= capacity
        /\ capacity <= CHANNEL_BUFFER_SIZE
        /\ \A t \in DOMAIN tasks : IsSuffix(QueueOf(t), tasks[t].sent))
  /\ [][ChannelStep]_vars
  /\ <>[](queue = <<>>)

\* The channel is full of events the loop has not taken yet, and the task
\* that sent them waits at its next send.
C28_Witness ==
  /\ Len(queue) = capacity
  /\ ~rx_dropped
  /\ tasks[1].pc \in SendPcs
  /\ tasks[1].sent = queue
  /\ tasks[1].lineno >= 2

\* C29: in Editing mode get_selected_model_name returns a name, and
\* submit_prompt never leaves the status 'Error: No model selected.'.
C29_EditingHasModel ==
  /\ input_mode = "Editing" => get_selected_model_name # None
  /\ status_message # <<"Error: No model selected.">>

\* Editing with the second entry of a catalog selected, which the user
\* reached with the Down key.
C29_Witness ==
  /\ input_mode = "Editing"
  /\ Len(models) >= 2
  /\ get_selected_model_name = Some(models[2])
  /\ input_buffer # <<>>

\* C30: in Normal mode the input buffer is empty.
C30_NormalEmptyBuffer ==
  input_mode = "Normal" => input_buffer = <<>>

\* C31: whenever the loop is at try_recv with nothing queued, a sender of the
\* channel is alive, so try_recv reports Empty and not Disconnected; the
\* status of the Disconnected arm is never set.
C31_NeverDisconnected ==
  /\ (loop = "recv" /\ queue = <<>>) => SenderCount > 0
  /\ status_message # <<"Critical Error: Async event channel disconnected.">>

\* The loop is at try_recv with nothing queued after the fetch task and a
\* generation task have returned and dropped their senders.
C31_Witness ==
  /\ loop = "recv"
  /\ queue = <<>>
  /\ fetch_pc # "running"
  /\ tasks[1].pc = "returned"
  /\ \A t \in DOMAIN tasks : tasks[t].pc \in {"idle", "returned"}
  /\ ~rx_dropped

====
